---- MODULE Spec2Model ----
(***************************************************************************)
(* Model of the video catalog pipeline of backend/:                        *)
(*   mediaconvert_completion_handler.py  (completion reconciler)           *)
(*   video_streamer.py                   (playback authorizer)             *)
(* The catalog is the DynamoDB table keyed by videoId, kept as the sequence *)
(* of its items in scan order.  Every invocation of the completion handler *)
(* is a short-lived context; the table is the only state shared between    *)
(* invocations.  The store is taken to answer every call: a scan returns   *)
(* every matching item (one page) and put_item does not fail.  SpecFault   *)
(* alone lets the scan of the filename lookup raise.                       *)
(*                                                                         *)
(* Strings are sequences of tokens.  The five suffix patterns the handler  *)
(* searches for are single tokens, so "pattern in s" is membership of the  *)
(* token and s.replace(pattern, '') removes every occurrence of it.        *)
(* A file path is the sequence of its '/'-separated segments, each segment *)
(* a token sequence (path.split('/')).                                     *)
(***************************************************************************)
EXTENDS Integers, Sequences, FiniteSets, TLC

(* ------------------------------ bounds --------------------------------- *)
\* number of handler invocations in one behaviour
MaxEvents == 3

\* concurrent handling contexts (Lambda execution environments)
Procs == {"p1", "p2"}

ProcOrder == [p \in Procs |-> IF p = "p1" THEN 1 ELSE 2]

(* ------------------------------ strings -------------------------------- *)
Absent == "<absent>"

\* (variant: only None counts as missing, '' passes)
Falsy_OnlyNone(s) == s = Absent

\* Python truthiness of an optional string: None and '' are falsy
Falsy(s) == s \in {Absent, ""}

SufFree == "_free_480p.mp4"
SufStandard == "_standard_480p.mp4"
SufPremium720 == "_premium_720p.mp4"
SufPremium1080 == "_premium_1080p.mp4"
ThumbMark == "_thumbnail."

\* 'tok in s'
Contains(s, tok) == \E i \in 1..Len(s) : s[i] = tok

\* s.replace(tok, '')
Remove(s, tok) == SelectSeq(s, LAMBDA x : x # tok)

\* s.split(tok)[0]
BeforeFirst(s, tok) ==
    IF Contains(s, tok)
    THEN LET i == CHOOSE k \in 1..Len(s) :
                     s[k] = tok /\ \A j \in 1..(k - 1) : s[j] # tok
         IN  SubSeq(s, 1, i - 1)
    ELSE s

\* file_path.split('/')[-1]
Basename(path) == path[Len(path)]

\* the path '' : ''.split('/') = ['']
EmptyPath == << <<>> >>

\* '/seg/' in file_path : seg is a whole segment with a '/' on both sides
HasSegment(path, seg) == \E i \in 2..(Len(path) - 1) : path[i] = <<seg>>

\* 'tok in file_path' for a token that holds no '/'
PathContains(path, tok) == \E i \in 1..Len(path) : Contains(path[i], tok)

(* ------------------------------ events --------------------------------- *)
NoDuration == -1

RECURSIVE FlattenPaths(_)
\* the paths in the iteration order of the three nested loops
FlattenPaths(outputs) ==
    IF outputs = <<>> THEN <<>>
    ELSE Head(outputs).outputFilePaths \o FlattenPaths(Tail(outputs))

OutputPaths(detail) == FlattenPaths(detail.outputDetails)

\* (variant: every non-empty path yields a filename)
MatchesPattern_AnyFile(path) == path # EmptyPath

\* the five if/elif tests of extract_filename_from_event on one path
MatchesPattern(path) ==
    /\ path # EmptyPath
    /\ \E tok \in {SufFree, SufStandard, SufPremium720, SufPremium1080, ThumbMark} :
           Contains(Basename(path), tok)

\* (variant: the thumbnail mark is removed like the other four patterns)
StripSuffix_ThumbRemoved(base) ==
    IF Contains(base, SufFree) THEN Remove(base, SufFree)
    ELSE IF Contains(base, SufStandard) THEN Remove(base, SufStandard)
    ELSE IF Contains(base, SufPremium720) THEN Remove(base, SufPremium720)
    ELSE IF Contains(base, SufPremium1080) THEN Remove(base, SufPremium1080)
    ELSE Remove(base, ThumbMark)

StripSuffix(base) ==
    IF Contains(base, SufFree) THEN Remove(base, SufFree)
    ELSE IF Contains(base, SufStandard) THEN Remove(base, SufStandard)
    ELSE IF Contains(base, SufPremium720) THEN Remove(base, SufPremium720)
    ELSE IF Contains(base, SufPremium1080) THEN Remove(base, SufPremium1080)
    ELSE BeforeFirst(base, ThumbMark)

\* [ok |-> FALSE] is None
extract_filename_from_event(detail) ==
    LET paths == OutputPaths(detail)
        hits  == {i \in 1..Len(paths) : MatchesPattern(paths[i])}
    IN  IF hits = {} THEN [ok |-> FALSE, name |-> <<>>]
        ELSE LET i == CHOOSE k \in hits : \A j \in hits : k <= j
             IN  [ok |-> TRUE, name |-> StripSuffix(Basename(paths[i]))]

\* 'if not filename': None and '' are both falsy
NoFilename(fn) == ~fn.ok \/ fn.name = <<>>

JobTypeOfPath(path) ==
    IF HasSegment(path, "free") THEN "free"
    ELSE IF HasSegment(path, "standard") \/ HasSegment(path, "premium") THEN "full"
    ELSE "none"

get_job_type_from_detail(detail) ==
    LET paths == OutputPaths(detail)
        hits  == {i \in 1..Len(paths) : JobTypeOfPath(paths[i]) # "none"}
    IN  IF hits = {} THEN "unknown"
        ELSE JobTypeOfPath(paths[CHOOSE k \in hits : \A j \in hits : k <= j])

CloudfrontDomain == "cdn"

extract_thumbnail_url_from_event(detail, filename) ==
    LET paths == OutputPaths(detail)
        hits  == {i \in 1..Len(paths) :
                     HasSegment(paths[i], "thumbnails") /\ PathContains(paths[i], ThumbMark)}
    IN  IF hits = {}
        THEN <<"https://", CloudfrontDomain, "/thumbnails/">> \o filename
                 \o <<ThumbMark, "0000000.jpg">>
        ELSE <<"https://", CloudfrontDomain, "/thumbnails/">>
                 \o Basename(paths[CHOOSE k \in hits : \A j \in hits : k <= j])

\* float(duration_ms) / 1000.0: the seconds and the thousandths of a second
MsToSeconds(duration_ms) ==
    [known |-> TRUE, whole |-> duration_ms \div 1000, millis |-> duration_ms % 1000]

\* the duration None
NoSeconds == [known |-> FALSE, whole |-> 0, millis |-> 0]

\* (variant: the job-level field is tried first)
extract_duration_from_job_detail_JobFirst(detail) ==
    LET outs == detail.outputDetails
        hits == {i \in 1..Len(outs) :
                    outs[i].durationInMs # NoDuration /\ outs[i].durationInMs # 0}
    IN  IF detail.jobDurationInMs # NoDuration
        THEN MsToSeconds(detail.jobDurationInMs)
        ELSE IF hits # {}
        THEN MsToSeconds(outs[CHOOSE k \in hits : \A j \in hits : k <= j].durationInMs)
        ELSE NoSeconds

\* the first output-level durationInMs that is truthy, else the job-level
\* one when the key is there, else None
extract_duration_from_job_detail(detail) ==
    LET outs == detail.outputDetails
        hits == {i \in 1..Len(outs) :
                    outs[i].durationInMs # NoDuration /\ outs[i].durationInMs # 0}
    IN  IF hits # {}
        THEN MsToSeconds(outs[CHOOSE k \in hits : \A j \in hits : k <= j].durationInMs)
        ELSE IF detail.jobDurationInMs # NoDuration
        THEN MsToSeconds(detail.jobDurationInMs)
        ELSE NoSeconds

\* 'if duration': None and 0.0 are falsy
HasDuration(d) == d.known /\ ~(d.whole = 0 /\ d.millis = 0)

(* ------------------------------ catalog -------------------------------- *)
\* item.get(k, default)
Get(item, k, default) == IF k \in DOMAIN item THEN item[k] ELSE default

\* item[k] = v on a dict
SetField(item, k, v) == (k :> v) @@ item

AllTags == {"free", "standard", "premium_720p", "premium_1080p"}

FreeUrl(filename) ==
    <<"https://", CloudfrontDomain, "/free/">> \o filename \o <<SufFree>>

StandardUrl(filename) ==
    <<"https://", CloudfrontDomain, "/standard/">> \o filename \o <<SufStandard>>

Premium720Url(filename) ==
    <<"https://", CloudfrontDomain, "/premium/">> \o filename \o <<SufPremium720>>

Premium1080Url(filename) ==
    <<"https://", CloudfrontDomain, "/premium/">> \o filename \o <<SufPremium1080>>

\* (variant: the scan has no filter, the first item of the table is taken)
find_existing_video_by_filename_AnyRecord(cat, filename) ==
    IF cat = <<>> THEN [found |-> FALSE] ELSE [found |-> TRUE, item |-> cat[1]]

\* (variant: the filter never matches, every lookup comes back empty)
find_existing_video_by_filename_NoMatch(cat, filename) == [found |-> FALSE]

\* the table scan with the filter originalFilename = :filename.  A scan
\* returns the items in the hash order of their keys: an order that is
\* arbitrary (the keys are uuid4 values) but the same from one scan to the
\* next.  cat is the table in that order; items[0] is the first match.
find_existing_video_by_filename(cat, filename) ==
    LET hits == {i \in 1..Len(cat) : cat[i].originalFilename = filename}
    IN  IF hits = {} THEN [found |-> FALSE]
        ELSE [found |-> TRUE,
              item  |-> cat[CHOOSE k \in hits : \A j \in hits : k <= j]]

\* find_existing_video_by_filename with its except clause: a scan that
\* raises is logged and None is returned
ScanResult(cat, filename, scan_ok) ==
    IF scan_ok THEN find_existing_video_by_filename(cat, filename)
    ELSE [found |-> FALSE]

\* (variant: every put adds an item, also when the key is in the table)
create_video_record_AlwaysAdds(cat, video_record, pos) ==
    SubSeq(cat, 1, pos) \o <<video_record>> \o SubSeq(cat, pos + 1, Len(cat))

\* (variant: the put is skipped)
create_video_record_Skipped(cat, video_record, pos) == cat

\* table.put_item(Item=video_record): replaces the item with the same key;
\* an item with a new key comes after the first pos items of the scan order
create_video_record(cat, video_record, pos) ==
    IF \E i \in 1..Len(cat) : cat[i].videoId = video_record.videoId
    THEN [cat EXCEPT ![CHOOSE i \in 1..Len(cat) :
                          cat[i].videoId = video_record.videoId] = video_record]
    ELSE SubSeq(cat, 1, pos) \o <<video_record>> \o SubSeq(cat, pos + 1, Len(cat))

\* (variant: the merge starts from an empty mapping)
ExistingUrls_Empty(existing) == <<>>

\* the URLs the merge starts from
ExistingUrls(existing) ==
    IF existing.found THEN Get(existing.item, "videoUrls", <<>>) ELSE <<>>

\* (variant: a free job assigns the whole mapping instead of its own tag)
UpdateUrls_FreeReplaces(video_urls, job_type, filename) ==
    IF job_type = "free"
    THEN [free |-> FreeUrl(filename)]
    ELSE [standard      |-> StandardUrl(filename),
          premium_720p  |-> Premium720Url(filename),
          premium_1080p |-> Premium1080Url(filename)] @@ video_urls

\* (variant: every job assigns the four tags)
UpdateUrls_AllTags(video_urls, job_type, filename) ==
    [free          |-> FreeUrl(filename),
     standard      |-> StandardUrl(filename),
     premium_720p  |-> Premium720Url(filename),
     premium_1080p |-> Premium1080Url(filename)]

\* video_urls after the update for the job type
UpdateUrls(video_urls, job_type, filename) ==
    IF job_type = "free"
    THEN SetField(video_urls, "free", FreeUrl(filename))
    ELSE [standard      |-> StandardUrl(filename),
          premium_720p  |-> Premium720Url(filename),
          premium_1080p |-> Premium1080Url(filename)] @@ video_urls

\* (variant: the job id replaces the ids of the record)
AppendJobId_Replaces(item, job_id) == <<job_id>>

\* the comma-joined mediaConvertJobId, kept as the sequence of its parts
AppendJobId(item, job_id) ==
    Append(Get(item, "mediaConvertJobId", <<"">>), job_id)

\* (variant: a merged record is completed only once it has the four tags)
UpdatedRecord_Reprocess(item, video_urls, job_id, job_type, thumbnail_url, t) ==
    LET r1 == SetField(item, "videoUrls", video_urls)
        r2 == SetField(r1, "mediaConvertJobId", Append(item.mediaConvertJobId, job_id))
        r3 == SetField(r2, "completedDate", t)
        r4 == SetField(r3, "status",
                       IF DOMAIN video_urls = AllTags THEN "completed" ELSE "processing")
    IN  IF job_type = "full" THEN SetField(r4, "thumbnailUrl", thumbnail_url) ELSE r4

UpdatedRecord(item, video_urls, job_id, job_type, thumbnail_url, t) ==
    LET r1 == SetField(item, "videoUrls", video_urls)
        r2 == SetField(r1, "mediaConvertJobId", AppendJobId(item, job_id))
        r3 == SetField(r2, "completedDate", t)
    IN  IF job_type = "full" THEN SetField(r3, "thumbnailUrl", thumbnail_url) ELSE r3

\* title and description (display text derived from the filename) are left out
NewRecord(video_id, filename, job_id, video_urls, thumbnail_url, t) ==
    [videoId           |-> video_id,
     originalFilename  |-> filename,
     originalKey       |-> filename \o <<".mp4">>,
     inputBucket       |-> "processed",
     mediaConvertJobId |-> <<job_id>>,
     status            |-> "completed",
     videoUrls         |-> video_urls,
     thumbnailUrl      |-> thumbnail_url,
     availableQualities |-> <<"480p", "720p", "1080p">>,
     uploadDate        |-> t,
     completedDate     |-> t]

WithDuration(video_record, duration) ==
    IF HasDuration(duration) THEN SetField(video_record, "duration", duration)
    ELSE video_record

\* the record handle_job_completion writes, from the lookup result onwards
CompletionRecord(existing, video_id, filename, job_id, detail, t) ==
    LET job_type      == get_job_type_from_detail(detail)
        video_urls    == UpdateUrls(ExistingUrls(existing), job_type, filename)
        thumbnail_url == extract_thumbnail_url_from_event(detail, filename)
        duration      == extract_duration_from_job_detail(detail)
        video_record  ==
            IF existing.found
            THEN UpdatedRecord(existing.item, video_urls, job_id, job_type,
                               thumbnail_url, t)
            ELSE NewRecord(video_id, filename, job_id, video_urls, thumbnail_url, t)
    IN  WithDuration(video_record, duration)

\* the id the record is written under
CompletionVideoId(existing, fresh_id) ==
    IF existing.found THEN existing.item.videoId ELSE fresh_id

\* (variant: the fallback is the job id alone)
ErrorFilename_NoPrefix(job_id, detail) ==
    LET fn == extract_filename_from_event(detail)
    IN  IF NoFilename(fn) THEN <<job_id>> ELSE fn.name

\* the filename of handle_job_error: f"failed_job_{job_id}" without one
ErrorFilename(job_id, detail) ==
    LET fn == extract_filename_from_event(detail)
    IN  IF NoFilename(fn) THEN <<"failed_job_", job_id>> ELSE fn.name

ErrorRecord(video_id, job_id, detail, t) ==
    LET filename == ErrorFilename(job_id, detail)
    IN  [videoId           |-> video_id,
         originalFilename  |-> filename,
         originalKey       |-> filename \o <<".mp4">>,
         inputBucket       |-> "failed",
         mediaConvertJobId |-> <<job_id>>,
         status            |-> "failed",
         uploadDate        |-> t,
         errorDate         |-> t,
         errorMessage      |-> IF detail.errorMessage = Absent THEN "Unknown error"
                               ELSE detail.errorMessage,
         errorCode         |-> IF detail.errorCode = Absent THEN "UNKNOWN_ERROR"
                               ELSE detail.errorCode]

\* (variant: the failure is written over the record the filename lookup finds)
handle_job_error_Upsert(cat, job_id, detail, fresh_id, pos, t) ==
    LET existing == find_existing_video_by_filename(cat, ErrorFilename(job_id, detail))
    IN  create_video_record(cat,
            ErrorRecord(IF existing.found THEN existing.item.videoId ELSE fresh_id,
                        job_id, detail, t),
            pos)

\* handle_job_error as one step on the table
handle_job_error(cat, job_id, detail, fresh_id, pos, t) ==
    create_video_record(cat, ErrorRecord(fresh_id, job_id, detail, t), pos)

\* handle_job_completion run with no other invocation in between
handle_job_completion(cat, job_id, detail, fresh_id, pos, t) ==
    LET fn == extract_filename_from_event(detail)
    IN  IF NoFilename(fn) THEN cat
        ELSE LET existing == find_existing_video_by_filename(cat, fn.name)
             IN  create_video_record(cat,
                     CompletionRecord(existing, CompletionVideoId(existing, fresh_id),
                                      fn.name, job_id, detail, t),
                     pos)

(* --------------------------- the events sent --------------------------- *)
S3Path(dir, base) == << <<"s3:">>, <<>>, <<"bucket">>, <<dir>>, base >>

Output(paths, duration_ms) ==
    [outputFilePaths |-> paths, durationInMs |-> duration_ms]

Detail(job_id, status, outputs, job_duration_ms, error_code, error_message) ==
    [jobId           |-> job_id,
     status          |-> status,
     outputDetails   |-> outputs,
     jobDurationInMs |-> job_duration_ms,
     errorCode       |-> error_code,
     errorMessage    |-> error_message]

\* the COMPLETE event of the free-preview job of a source file
FreeEvent(name, job_id, duration_ms) ==
    Detail(job_id, "COMPLETE",
           << Output(<< S3Path("free", <<name, SufFree>>) >>, duration_ms) >>,
           NoDuration, Absent, Absent)

\* the COMPLETE event of the full job: three renditions and the thumbnail
FullEvent(name, job_id, duration_ms) ==
    Detail(job_id, "COMPLETE",
           << Output(<< S3Path("standard", <<name, SufStandard>>) >>, duration_ms),
              Output(<< S3Path("premium", <<name, SufPremium720>>) >>, duration_ms),
              Output(<< S3Path("premium", <<name, SufPremium1080>>) >>, duration_ms),
              Output(<< S3Path("thumbnails", <<name, ThumbMark, "0000000.jpg">>) >>,
                     NoDuration) >>,
           NoDuration, Absent, Absent)

\* an ERROR event that lists no outputs
ErrorEvent(job_id) ==
    Detail(job_id, "ERROR", <<>>, NoDuration, "1040", "bad input")

\* an ERROR event that still lists the output path of the failed job
ErrorEventWithOutput(name, job_id) ==
    Detail(job_id, "ERROR",
           << Output(<< S3Path("free", <<name, SufFree>>) >>, NoDuration) >>,
           NoDuration, Absent, Absent)

EvFree == FreeEvent("myclip", "job-free", 5000)
EvFull == FullEvent("myclip", "job-full", 7000)
EvError == ErrorEvent("job-err")
EvErrorFile == ErrorEventWithOutput("myclip", "job-err-file")
EvOtherFree == FreeEvent("other", "job-other", NoDuration)

\* a COMPLETE event that lists the thumbnail alone: job type unknown
EvThumbOnly ==
    Detail("job-thumb", "COMPLETE",
           << Output(<< S3Path("thumbnails", <<"myclip", ThumbMark, "0000000.jpg">>) >>,
                     NoDuration) >>,
           NoDuration, Absent, Absent)
EvNoOutput == Detail("job-empty", "COMPLETE", <<>>, 3000, Absent, Absent)
EvProgressing == Detail("job-prog", "PROGRESSING", <<>>, NoDuration, Absent, Absent)
EvNoJobId == Detail(Absent, "COMPLETE", <<>>, NoDuration, Absent, Absent)

Events ==
    {EvFree, EvFull, EvError, EvErrorFile, EvOtherFree, EvThumbOnly, EvNoOutput,
     EvProgressing, EvNoJobId}

\* more events that lambda_handler or handle_job_completion turns away
\* an ERROR event whose jobId is the empty string
EvEmptyJobId == Detail("", "ERROR", <<>>, NoDuration, "1040", "bad input")

\* the free job's outputs with no status at all
EvNoStatus ==
    Detail("job-nostatus", Absent,
           << Output(<< S3Path("free", <<"myclip", SufFree>>) >>, 5000) >>,
           NoDuration, Absent, Absent)

\* the free job's outputs with an empty status
EvEmptyStatus ==
    Detail("job-emptystatus", "",
           << Output(<< S3Path("free", <<"myclip", SufFree>>) >>, 5000) >>,
           NoDuration, Absent, Absent)

\* a COMPLETE event whose only output, s3://bucket/free/myclip.mp4, carries
\* none of the five patterns
EvNoMatch ==
    Detail("job-nomatch", "COMPLETE",
           << Output(<< S3Path("free", <<"myclip", ".mp4">>) >>, 5000) >>,
           NoDuration, Absent, Absent)

\* an ERROR event with no outputs, no errorCode and no errorMessage
EvErrorBare == Detail("job-err-bare", "ERROR", <<>>, NoDuration, Absent, Absent)

\* the free job of myclip with a duration at the job level alone
EvJobLevel ==
    Detail("job-joblevel", "COMPLETE",
           << Output(<< S3Path("free", <<"myclip", SufFree>>) >>, NoDuration) >>,
           3500, Absent, Absent)

\* the same with a duration at both levels
EvBothLevels ==
    Detail("job-bothlevels", "COMPLETE",
           << Output(<< S3Path("free", <<"myclip", SufFree>>) >>, 5500) >>,
           9000, Absent, Absent)

\* the same with an output-level duration of 0
EvZeroOutput ==
    Detail("job-zero", "COMPLETE",
           << Output(<< S3Path("free", <<"myclip", SufFree>>) >>, 0) >>,
           9000, Absent, Absent)

\* a CANCELED event that lists the output path of the free job of myclip
EvCanceled ==
    Detail("job-canceled", "CANCELED",
           << Output(<< S3Path("free", <<"myclip", SufFree>>) >>, 5000) >>,
           NoDuration, "1999", "canceled")

\* the events sent when invocations run one at a time
SeqEvents ==
    Events \cup {EvEmptyJobId, EvNoStatus, EvEmptyStatus, EvNoMatch, EvErrorBare,
                 EvJobLevel, EvBothLevels, EvZeroOutput, EvCanceled}

(* ---------------------------- state machine ---------------------------- *)
VARIABLES
    catalog,   \* the table: videoId -> item
    inv,       \* per handling context: where its invocation stands
    log,       \* the last two invocations that returned, the older one first
    returned,  \* how many invocations have returned
    uuids,     \* how many ids uuid4() has returned
    now,       \* the clock datetime.utcnow() reads, in seconds
    play,      \* the last playback request served, with its response
    listed,    \* the last list request served, with its response
    probe      \* an event detail and the filename extracted from it

vars == <<catalog, inv, log, returned, uuids, now, play, listed, probe>>

\* no playback request served yet
NoPlay == [served |-> FALSE]

\* no list request served yet
NoList == [served |-> FALSE]

\* no extraction made
NoProbe == [applied |-> FALSE]

Idle == [pc |-> "idle"]

AllIdle == \A p \in Procs : inv[p].pc = "idle"

Started == returned + Cardinality({p \in Procs : inv[p].pc # "idle"})

\* uuid4(): a value no earlier call returned
Uuid4 == uuids + 1

\* where a new key may fall in the scan order of the table
Positions(cat) == 0..Len(cat)

\* what is kept of an invocation that returned
\* (atomic: no other invocation wrote between its lookup and its return)
Returned(e, code, wrote, vid, post, atomic) ==
    [ev |-> e, statusCode |-> code, wrote |-> wrote, videoId |-> vid,
     pre |-> catalog, post |-> post, atomic |-> atomic]

\* the log with one more entry
Logged(entry) == IF Len(log) < 2 THEN Append(log, entry) ELSE <<log[2], entry>>

\* the first idle handling context takes the next event (contexts are
\* interchangeable)
Free(p) ==
    /\ inv[p].pc = "idle"
    /\ \A q \in Procs : inv[q].pc = "idle" => ProcOrder[p] <= ProcOrder[q]

Init ==
    /\ catalog = <<>>
    /\ inv = [p \in Procs |-> Idle]
    /\ log = <<>>
    /\ returned = 0
    /\ uuids = 0
    /\ now = 0
    /\ play = NoPlay
    /\ listed = NoList
    /\ probe = NoProbe

\* lambda_handler: jobId or status missing
RejectMissingFields(p, e) ==
    /\ Free(p)
    /\ Started < MaxEvents
    /\ Falsy(e.jobId) \/ Falsy(e.status)
    /\ log' = Logged(Returned(e, 400, FALSE, 0, catalog, TRUE))
    /\ returned' = returned + 1
    /\ UNCHANGED <<catalog, inv, uuids, now, play, listed, probe>>

\* (variant: every status but COMPLETE is handled as a failure)
UnhandledStatus_AsError(p, e) ==
    /\ Free(p)
    /\ Started < MaxEvents
    /\ ~Falsy(e.jobId) /\ ~Falsy(e.status)
    /\ e.status \notin {"COMPLETE", "ERROR"}
    /\ \E pos \in Positions(catalog) :
          LET post == handle_job_error(catalog, e.jobId, e, Uuid4, pos, now)
          IN  /\ catalog' = post
              /\ log' = Logged(Returned(e, 200, TRUE, Uuid4, post, TRUE))
    /\ uuids' = uuids + 1
    /\ returned' = returned + 1
    /\ now' = now + 1
    /\ UNCHANGED <<inv, play, listed, probe>>

\* lambda_handler: a status that is neither COMPLETE nor ERROR
UnhandledStatus(p, e) ==
    /\ Free(p)
    /\ Started < MaxEvents
    /\ ~Falsy(e.jobId) /\ ~Falsy(e.status)
    /\ e.status \notin {"COMPLETE", "ERROR"}
    /\ log' = Logged(Returned(e, 200, FALSE, 0, catalog, TRUE))
    /\ returned' = returned + 1
    /\ UNCHANGED <<catalog, inv, uuids, now, play, listed, probe>>

\* lambda_handler -> handle_job_completion: no filename, early return
CompletionNoFilename(p, e) ==
    /\ Free(p)
    /\ Started < MaxEvents
    /\ ~Falsy(e.jobId) /\ e.status = "COMPLETE"
    /\ NoFilename(extract_filename_from_event(e))
    /\ log' = Logged(Returned(e, 200, FALSE, 0, catalog, TRUE))
    /\ returned' = returned + 1
    /\ UNCHANGED <<catalog, inv, uuids, now, play, listed, probe>>

\* lambda_handler -> handle_job_completion up to the lookup and the choice
\* of the video id
CompletionLookup(p, e) ==
    /\ Free(p)
    /\ Started < MaxEvents
    /\ ~Falsy(e.jobId) /\ e.status = "COMPLETE"
    /\ LET fn == extract_filename_from_event(e)
           existing == find_existing_video_by_filename(catalog, fn.name)
       IN  /\ ~NoFilename(fn)
           /\ inv' = [inv EXCEPT ![p] =
                         [pc       |-> "put",
                          ev       |-> e,
                          filename |-> fn.name,
                          existing |-> existing,
                          scan_ok  |-> TRUE,
                          seen     |-> returned,
                          video_id |-> CompletionVideoId(existing, Uuid4)]]
           /\ uuids' = IF existing.found THEN uuids ELSE uuids + 1
    /\ UNCHANGED <<catalog, log, returned, now, play, listed, probe>>

\* the same steps of handle_job_completion when table.scan raises: the
\* lookup comes back with None and a new video id is drawn
CompletionLookupFails(p, e) ==
    /\ Free(p)
    /\ Started < MaxEvents
    /\ ~Falsy(e.jobId) /\ e.status = "COMPLETE"
    /\ LET fn == extract_filename_from_event(e)
           existing == ScanResult(catalog, fn.name, FALSE)
       IN  /\ ~NoFilename(fn)
           /\ inv' = [inv EXCEPT ![p] =
                         [pc       |-> "put",
                          ev       |-> e,
                          filename |-> fn.name,
                          existing |-> existing,
                          scan_ok  |-> FALSE,
                          seen     |-> returned,
                          video_id |-> CompletionVideoId(existing, Uuid4)]]
           /\ uuids' = uuids + 1
    /\ UNCHANGED <<catalog, log, returned, now, play, listed, probe>>

\* handle_job_completion from the lookup result to put_item, and the return
CompletionPut(p) ==
    /\ inv[p].pc = "put"
    /\ \E pos \in Positions(catalog) :
        LET c == inv[p]
            rec == CompletionRecord(c.existing, c.video_id, c.filename,
                                    c.ev.jobId, c.ev, now)
            post == create_video_record(catalog, rec, pos)
        IN  /\ catalog' = post
            /\ log' = Logged(Returned(c.ev, 200, TRUE, c.video_id, post,
                                         c.seen = returned))
    /\ inv' = [inv EXCEPT ![p] = Idle]
    /\ returned' = returned + 1
    /\ now' = now + 1
    /\ UNCHANGED <<uuids, play, listed, probe>>

\* lambda_handler -> handle_job_error
JobError(p, e) ==
    /\ Free(p)
    /\ Started < MaxEvents
    /\ ~Falsy(e.jobId) /\ e.status = "ERROR"
    /\ \E pos \in Positions(catalog) :
          LET post == handle_job_error(catalog, e.jobId, e, Uuid4, pos, now)
          IN  /\ catalog' = post
              /\ log' = Logged(Returned(e, 200, TRUE, Uuid4, post, TRUE))
    /\ uuids' = uuids + 1
    /\ returned' = returned + 1
    /\ now' = now + 1
    /\ UNCHANGED <<inv, play, listed, probe>>

Begin(p, e) ==
    \/ RejectMissingFields(p, e)
    \/ UnhandledStatus(p, e)
    \/ CompletionNoFilename(p, e)
    \/ CompletionLookup(p, e)
    \/ JobError(p, e)

\* invocations overlap freely
Next ==
    \/ \E p \in Procs, e \in Events : Begin(p, e)
    \/ \E p \in Procs : CompletionPut(p)

Spec == Init /\ [][Next]_vars

\* invocations run one at a time
NextSeq ==
    \/ \E p \in Procs, e \in SeqEvents : AllIdle /\ Begin(p, e)
    \/ \E p \in Procs : CompletionPut(p)

SpecSeq == Init /\ [][NextSeq]_vars

\* the events sent while the scan of the lookup may raise
FaultEvents == {EvFree, EvFull, EvErrorFile}

\* invocations run one at a time; the scan of a lookup answers or raises
NextFault ==
    \/ \E p \in Procs, e \in FaultEvents : AllIdle /\ CompletionLookup(p, e)
    \/ \E p \in Procs, e \in FaultEvents : AllIdle /\ CompletionLookupFails(p, e)
    \/ \E p \in Procs : CompletionPut(p)
    \/ \E p \in Procs, e \in FaultEvents : AllIdle /\ JobError(p, e)

SpecFault == Init /\ [][NextFault]_vars

(* ---------------------- playback: video_streamer.py --------------------- *)
\* what a call that can raise comes back with
Raise(exc) == [raised |-> TRUE, exc |-> exc]

Return(v) == [raised |-> FALSE, value |-> v]

\* create_error_response: no descriptor in the body
create_error_response(status_code, message) ==
    [statusCode |-> status_code, error |-> message, body |-> [present |-> FALSE]]

\* (variant: the scheme of the header is not looked at)
extract_user_info_AnyScheme(event) ==
    IF event.auth.scheme = "Bearer" /\ ~event.auth.decodes THEN [ok |-> FALSE]
    ELSE [ok |-> TRUE, username |-> event.auth.username]

\* extract_user_info: [ok |-> FALSE] is None
extract_user_info(event) ==
    IF event.auth.scheme # "Bearer" THEN [ok |-> FALSE]
    ELSE IF ~event.auth.decodes THEN [ok |-> FALSE]
    ELSE [ok |-> TRUE, username |-> event.auth.username]

\* (variant: an unrecognised value is passed through)
SubscriptionOf_PassThrough(subscription_type) ==
    IF subscription_type \in {"trial", "guest"} THEN "free"
    ELSE IF subscription_type = "saving" THEN "standard"
    ELSE subscription_type

\* the if/elif chain of get_user_subscription on the stored attribute
\* (Absent: the user carries no custom:subscription_type attribute)
SubscriptionOf(subscription_type) ==
    IF subscription_type = "trial" THEN "free"
    ELSE IF subscription_type = "saving" THEN "standard"
    ELSE IF subscription_type = "guest" THEN "free"
    ELSE IF subscription_type \in {"free", "standard", "premium"} THEN subscription_type
    ELSE "free"

\* get_user_subscription against the identity store idp.  Only ClientError
\* (the service answered with an error, such as UserNotFoundException) is
\* caught; os.environ[...] raises KeyError, and botocore raises
\* ParamValidationError for Username=None and EndpointConnectionError when
\* the endpoint cannot be reached, none of which is a ClientError.
get_user_subscription(username, idp) ==
    IF ~idp.pool_configured THEN Raise("KeyError")
    ELSE IF username = Absent THEN Raise("ParamValidationError")
    ELSE IF ~idp.reachable THEN Raise("EndpointConnectionError")
    ELSE IF ~idp.user_exists THEN Return("free")
    ELSE Return(SubscriptionOf(idp.subscription_type))

\* get_video_metadata: [found |-> FALSE] is None, also when get_item raises
get_video_metadata(cat, video_id, store_up) ==
    IF ~store_up THEN [found |-> FALSE]
    ELSE IF \E i \in 1..Len(cat) : cat[i].videoId = video_id
         THEN [found |-> TRUE,
               item  |-> cat[CHOOSE i \in 1..Len(cat) : cat[i].videoId = video_id]]
         ELSE [found |-> FALSE]

\* max_duration = None
NoMaxDuration == -1

\* max_duration of the free tier, in seconds
FreeMaxDuration == 10

\* (variant: a quality the code does not know is played at 1080p)
RequestedQuality_UnknownTo1080(event) ==
    IF event.quality = Absent THEN "720p"
    ELSE IF event.quality \notin {"480p", "720p"} THEN "1080p"
    ELSE event.quality

\* (variant: premium plays 1080p unless told otherwise)
RequestedQuality_Default1080(event) ==
    IF event.quality = Absent THEN "1080p" ELSE event.quality

\* requested_quality of a premium request: the quality parameter, '720p'
\* without one
RequestedQuality(event) ==
    IF event.quality = Absent THEN "720p" ELSE event.quality

\* video_urls.get(tag): the empty string stands for None too
UrlUnder(video_urls, tag) == Get(video_urls, tag, <<>>)

\* (variant: the standard tier chooses its quality as the premium tier does)
RenditionChoice_StandardChooses(subscription_type, event, video_urls) ==
    IF subscription_type = "free"
    THEN [video_url    |-> UrlUnder(video_urls, "free"),
          quality      |-> "480p",
          max_duration |-> FreeMaxDuration]
    ELSE IF RequestedQuality(event) = "1080p"
    THEN [video_url    |-> UrlUnder(video_urls, "premium_1080p"),
          quality      |-> "1080p",
          max_duration |-> NoMaxDuration]
    ELSE IF RequestedQuality(event) = "480p" \/ event.quality = Absent
    THEN [video_url    |-> UrlUnder(video_urls, "standard"),
          quality      |-> "480p",
          max_duration |-> NoMaxDuration]
    ELSE [video_url    |-> UrlUnder(video_urls, "premium_720p"),
          quality      |-> "720p",
          max_duration |-> NoMaxDuration]

\* the if/elif chain of generate_video_response that picks the URL
RenditionChoice(subscription_type, event, video_urls) ==
    IF subscription_type = "free"
    THEN [video_url    |-> UrlUnder(video_urls, "free"),
          quality      |-> "480p",
          max_duration |-> FreeMaxDuration]
    ELSE IF subscription_type = "standard"
    THEN [video_url    |-> UrlUnder(video_urls, "standard"),
          quality      |-> "480p",
          max_duration |-> NoMaxDuration]
    ELSE IF subscription_type = "premium"
    THEN LET requested_quality == RequestedQuality(event)
         IN  IF requested_quality = "1080p"
             THEN [video_url    |-> UrlUnder(video_urls, "premium_1080p"),
                   quality      |-> "1080p",
                   max_duration |-> NoMaxDuration]
             ELSE IF requested_quality = "480p"
             THEN [video_url    |-> UrlUnder(video_urls, "standard"),
                   quality      |-> "480p",
                   max_duration |-> NoMaxDuration]
             ELSE [video_url    |-> UrlUnder(video_urls, "premium_720p"),
                   quality      |-> "720p",
                   max_duration |-> NoMaxDuration]
    ELSE [video_url |-> <<>>, quality |-> Absent, max_duration |-> NoMaxDuration]

\* (variant: a missing URL is let through)
NoVideoUrl_Never(video_url) == FALSE

\* 'if not video_url'
NoVideoUrl(video_url) == video_url = <<>>

\* (variant: the free tier gets the long expiry)
FreeExpiry_Long == 2 * 60 * 60

\* timedelta(minutes=15), in seconds
FreeExpiry == 15 * 60

\* timedelta(hours=2), in seconds
PaidExpiry == 2 * 60 * 60

\* (variant: the URL is built again from the CDN domain and the video id)
generate_cloudfront_signed_url_Rebuilt(video_url, subscription_type, t) ==
    <<"https://", CloudfrontDomain, "/", subscription_type, "/video.mp4",
      "?expires=", ToString(t + PaidExpiry)>>

\* generate_cloudfront_signed_url at time t (seconds since the epoch, the
\* process running in UTC): the URL, then ?expires= and the decimal digits
generate_cloudfront_signed_url(video_url, subscription_type, t) ==
    LET expiration_time ==
            IF subscription_type = "free" THEN t + FreeExpiry ELSE t + PaidExpiry
    IN  video_url \o <<"?expires=", ToString(expiration_time)>>

get_available_qualities(subscription_type) ==
    IF subscription_type = "premium" THEN <<"480p", "720p", "1080p">>
    ELSE <<"480p">>

\* generate_video_response (title, description and features left out)
generate_video_response(video_id, subscription_type, user_info, video_metadata, event, t) ==
    LET video_urls == Get(video_metadata, "videoUrls", <<>>)
        choice     == RenditionChoice(subscription_type, event, video_urls)
    IN  IF NoVideoUrl(choice.video_url)
        THEN Raise("Video not available for subscription type")
        ELSE Return(
               [present            |-> TRUE,
                videoId            |-> video_id,
                thumbnail          |-> Get(video_metadata, "thumbnailUrl", <<>>),
                duration           |-> Get(video_metadata, "duration", MsToSeconds(0)),
                subscriptionType   |-> subscription_type,
                videoUrl           |-> generate_cloudfront_signed_url(
                                           choice.video_url, subscription_type, t),
                quality            |-> choice.quality,
                maxDuration        |-> choice.max_duration,
                availableQualities |-> get_available_qualities(subscription_type),
                user               |-> user_info.username])

\* pathParameters without a videoId
NoVideoId == 0

\* (variant: only a record still in processing is held back)
NotPlayable_OnlyProcessing(video_metadata) == video_metadata.status = "processing"

\* video_metadata['status'] != 'completed'
NotPlayable(video_metadata) == video_metadata.status # "completed"

\* what a request leaves behind: the response, and what the two lookups
\* gave when the handler got to them
Outcome(response, subscription, metadata) ==
    [response |-> response, subscription |-> subscription, metadata |-> metadata]

NotCalled == [called |-> FALSE]

\* lambda_handler of video_streamer.py on the table cat at time t
streamer_lambda_handler(event, idp, cat, store_up, t) ==
    LET user_info == extract_user_info(event)
    IN  IF ~user_info.ok
        THEN Outcome(create_error_response(401, <<"Invalid or missing authorization">>),
                     NotCalled, NotCalled)
        ELSE IF event.videoId = NoVideoId
        THEN Outcome(create_error_response(400, <<"Video ID is required">>),
                     NotCalled, NotCalled)
        ELSE
        LET sub == get_user_subscription(user_info.username, idp)
            subscription == [called |-> TRUE, result |-> sub]
        IN  IF sub.raised
            THEN Outcome(create_error_response(500, <<"Internal server error: ", sub.exc>>),
                         subscription, NotCalled)
            ELSE
            LET md == get_video_metadata(cat, event.videoId, store_up)
                metadata == [called |-> TRUE, result |-> md]
            IN  IF ~md.found
                THEN Outcome(create_error_response(404, <<"Video not found">>),
                             subscription, metadata)
                ELSE IF NotPlayable(md.item)
                THEN Outcome(create_error_response(202, <<"Video is still processing">>),
                             subscription, metadata)
                ELSE
                LET vr == generate_video_response(event.videoId, sub.value, user_info,
                                                  md.item, event, t)
                IN  IF vr.raised
                    THEN Outcome(create_error_response(500,
                                     <<"Internal server error: ", vr.exc>>),
                                 subscription, metadata)
                    ELSE Outcome([statusCode |-> 200, error |-> <<>>, body |-> vr.value],
                                 subscription, metadata)

(* ------------------------- the requests sent --------------------------- *)
Auth(scheme, decodes, username) ==
    [scheme |-> scheme, decodes |-> decodes, username |-> username]

\* a bearer token that decodes and carries the cognito:username claim
GoodAuth == Auth("Bearer", TRUE, "alice")

\* no Authorization header; another scheme; a token that does not decode; a
\* token without the username claim; a good one
Auths ==
    {Auth("none", FALSE, Absent), Auth("Basic", FALSE, Absent),
     Auth("Bearer", FALSE, Absent), Auth("Bearer", TRUE, Absent), GoodAuth}

\* the identity store as one request finds it
Idp(pool_configured, reachable, user_exists, subscription_type) ==
    [pool_configured   |-> pool_configured,
     reachable         |-> reachable,
     user_exists       |-> user_exists,
     subscription_type |-> subscription_type]

\* values of custom:subscription_type ("gold": one the code does not know)
StoredTypes ==
    {Absent, "trial", "guest", "saving", "free", "standard", "premium", "gold"}

IdpOk(subscription_type) == Idp(TRUE, TRUE, TRUE, subscription_type)

\* USER_POOL_ID unset; the endpoint unreachable; the user unknown
IdpFailures ==
    {Idp(FALSE, TRUE, TRUE, "premium"), Idp(TRUE, FALSE, TRUE, "premium"),
     Idp(TRUE, TRUE, FALSE, Absent)}

Idps == {IdpOk(a) : a \in StoredTypes} \cup IdpFailures

\* the quality query parameter ("4k": one the code does not know)
Qualities == {Absent, "480p", "720p", "1080p", "4k"}

Request(auth, video_id, quality, idp, store_up) ==
    [event    |-> [auth |-> auth, videoId |-> video_id, quality |-> quality],
     idp      |-> idp,
     store_up |-> store_up]

\* the ids in the table and one that is not
VideoIds == 1..(uuids + 1)

\* the requests served: every header without a videoId, with one of the
\* table and with one that is not, the identity store and the table each
\* answering or not; every identity-store case, quality and videoId under a
\* good header; every videoId while the table cannot be read
Requests ==
    {Request(a, v, Absent, idp, s) :
         a \in Auths, v \in {NoVideoId, 1, uuids + 1},
         idp \in {IdpOk("premium"), Idp(FALSE, TRUE, TRUE, "premium")}, s \in BOOLEAN}
    \cup {Request(GoodAuth, v, q, idp, TRUE) :
              v \in VideoIds, q \in Qualities, idp \in Idps}
    \cup {Request(GoodAuth, v, Absent, IdpOk("premium"), FALSE) : v \in VideoIds}

(* ------------------------ listing: video_lister.py ---------------------- *)
\* a query parameter that is given, and one that is not
Param(v) == [given |-> TRUE, value |-> v]

NoParam == [given |-> FALSE]

\* query_params.get(name, default) on a parameter that reads as a number
IntParam(param, default) == IF param.given THEN param.value ELSE default

DefaultPage == 1

DefaultLimit == 12

Min(a, b) == IF a <= b THEN a ELSE b

\* the first n items of a result: the Limit of a scan or query
Limited(items, n) == SubSeq(items, 1, Min(n, Len(items)))

\* the items with the status in the order of the StatusIndex read backwards
\* (ScanIndexForward=False): latest uploadDate first, items of one
\* uploadDate in table order
StatusIndexBackwards(cat, status) ==
    LET hits == {i \in 1..Len(cat) : cat[i].status = status}
        before(j, i) ==
            \/ cat[j].uploadDate > cat[i].uploadDate
            \/ cat[j].uploadDate = cat[i].uploadDate /\ j < i
        rank(i) == Cardinality({j \in hits : before(j, i)}) + 1
    IN  [k \in 1..Cardinality(hits) |-> cat[CHOOSE i \in hits : rank(i) = k]]

\* 'if status_filter': None and '' are falsy
NoStatusFilter(status_filter) == ~status_filter.given \/ status_filter.value = ""

\* what the table gives without a Limit: table.query on StatusIndex with a
\* status filter, table.scan without one
Retrieved(cat, status_filter) ==
    IF NoStatusFilter(status_filter) THEN cat
    ELSE StatusIndexBackwards(cat, status_filter.value)

\* (variant: the offset of page p is p * limit)
StartIndex_OneTooFar(page, limit) == page * limit

\* offset: (page - 1) * limit for page > 1, 0 otherwise
StartIndex(page, limit) == IF page > 1 THEN (page - 1) * limit ELSE 0

\* items[start_index:end_index] for 0 <= start_index <= end_index
Slice(items, start_index, end_index) ==
    SubSeq(items, start_index + 1, Min(end_index, Len(items)))

\* the entry of videos for an item (title, description, fileSize left out)
ListedVideo(item) ==
    [id               |-> item.videoId,
     thumbnail        |-> Get(item, "thumbnailUrl", <<>>),
     uploadDate       |-> item.uploadDate,
     status           |-> item.status,
     qualities        |-> Get(item, "availableQualities", <<"480p">>),
     originalFilename |-> item.originalFilename]

\* (variant: the number of items read is taken as the total)
TotalItems_NoCount(cat, status_filter, items, limit, page) == Len(items)

\* total_items: the items read when the read came back short of
\* limit * page, the Count of a second read otherwise
TotalItems(cat, status_filter, items, limit, page) ==
    IF Len(items) < limit * page THEN Len(items)
    ELSE Len(Retrieved(cat, status_filter))

TotalPages(total_items, limit) ==
    IF total_items > 0 THEN (total_items + limit - 1) \div limit ELSE 1

\* the 500 result of the except clause
ListError(message) == [statusCode |-> 500, error |-> message, body |-> [present |-> FALSE]]

\* lambda_handler of video_lister.py on the table cat.  params.numeric is
\* FALSE when int() rejects the text of page or limit.
lister_lambda_handler(params, cat) ==
    IF ~params.numeric THEN ListError("ValueError")
    ELSE
    LET page  == IntParam(params.page, DefaultPage)
        limit == IntParam(params.limit, DefaultLimit)
        start_index == StartIndex(page, limit)
        end_index   == start_index + limit
        items == Limited(Retrieved(cat, params.status), limit * page)
        paginated_items == Slice(items, start_index, end_index)
        total_items == TotalItems(cat, params.status, items, limit, page)
        total_pages == TotalPages(total_items, limit)
    IN  [statusCode |-> 200,
         error      |-> "",
         body       |->
             [present    |-> TRUE,
              videos     |-> [k \in 1..Len(paginated_items) |->
                                  ListedVideo(paginated_items[k])],
              pagination |->
                  [currentPage  |-> page,
                   totalPages   |-> total_pages,
                   totalItems   |-> total_items,
                   itemsPerPage |-> limit,
                   hasNext      |-> page < total_pages,
                   hasPrevious  |-> page > 1]]]

\* largest page and limit asked for
MaxPage == 3

MaxLimit == 2

ListParams(page, limit, status, numeric) ==
    [page |-> page, limit |-> limit, status |-> status, numeric |-> numeric]

\* the list requests served: every page and limit with and without a status
\* filter, the defaults, and a page that is not a number
ListRequests ==
    {ListParams(Param(pg), Param(lm), st, TRUE) :
         pg \in 1..MaxPage, lm \in 1..MaxLimit,
         st \in {NoParam, Param(""), Param("completed"), Param("failed")}}
    \cup {ListParams(NoParam, NoParam, NoParam, TRUE),
          ListParams(Param(1), Param(1), NoParam, FALSE)}

\* the events that fill the table before requests are served
PlayEvents == {EvFree, EvFull, EvErrorFile}

\* (variant: serving a request stamps the record with the time of the view)
Play_StampsView(r) ==
    /\ AllIdle
    /\ ~play.served /\ ~listed.served
    /\ play' = [served |-> TRUE, req |-> r, now |-> now,
                out |-> streamer_lambda_handler(r.event, r.idp, catalog,
                                                r.store_up, now)]
    /\ catalog' = [i \in 1..Len(catalog) |->
                      IF catalog[i].videoId = r.event.videoId
                      THEN SetField(catalog[i], "lastViewed", now)
                      ELSE catalog[i]]
    /\ UNCHANGED <<inv, log, returned, uuids, now, listed, probe>>

\* one playback request served (play keeps one request: a later one would
\* be served from the same table)
Play(r) ==
    /\ AllIdle
    /\ ~play.served /\ ~listed.served
    /\ play' = [served |-> TRUE, req |-> r, now |-> now,
                out |-> streamer_lambda_handler(r.event, r.idp, catalog,
                                                r.store_up, now)]
    /\ UNCHANGED <<catalog, inv, log, returned, uuids, now, listed, probe>>

\* one list request served
List(params) ==
    /\ AllIdle
    /\ ~play.served /\ ~listed.served
    /\ listed' = [served |-> TRUE, params |-> params,
                  response |-> lister_lambda_handler(params, catalog)]
    /\ UNCHANGED <<catalog, inv, log, returned, uuids, now, play, probe>>

\* completion events one at a time, then one playback or list request: the
\* response depends on the table and the clock as they are when it is served
NextPlay ==
    \/ \E p \in Procs, e \in PlayEvents :
           ~play.served /\ ~listed.served /\ AllIdle /\ Begin(p, e)
    \/ \E p \in Procs : CompletionPut(p)
    \/ \E r \in Requests : Play(r)
    \/ \E params \in ListRequests : List(params)

SpecPlay == Init /\ [][NextPlay]_vars

(* ------------------------ filename extraction -------------------------- *)
\* longest filename tried, in tokens
MaxNameLen == 2

\* the pieces filenames are made of: none is a suffix pattern
NameTokens == {"my", "clip", "-v2"}

Filenames == UNION {[1..n -> NameTokens] : n \in 1..MaxNameLen}

\* the five suffixes, the thumbnail one with two <n>.<ext> endings
Suffixes ==
    {<<SufFree>>, <<SufStandard>>, <<SufPremium720>>, <<SufPremium1080>>,
     <<ThumbMark, "0000000.jpg">>, <<ThumbMark, "0000012.png">>}

Directories == {"free", "standard", "premium", "thumbnails", "outbox"}

\* an event whose first output path is <dir>/f<suffix>, alone or followed
\* by an output of another file
ProbeDetail(dir, f, suffix, more) ==
    Detail("job-probe", "COMPLETE",
           << Output(<< S3Path(dir, f \o suffix) >>, NoDuration) >> \o more,
           NoDuration, Absent, Absent)

ProbeInputs ==
    {[applied |-> FALSE, f |-> f, detail |-> ProbeDetail(dir, f, suffix, more)] :
        f \in Filenames, suffix \in Suffixes, dir \in Directories,
        more \in {<<>>, << Output(<< S3Path("free", <<"other", SufFree>>) >>, NoDuration) >>}}

InitExtract ==
    /\ catalog = <<>>
    /\ inv = [p \in Procs |-> Idle]
    /\ log = <<>>
    /\ returned = 0
    /\ uuids = 0
    /\ now = 0
    /\ play = NoPlay
    /\ listed = NoList
    /\ probe \in ProbeInputs

\* extract_filename_from_event applied to the detail
Extract ==
    /\ ~probe.applied
    /\ probe' = [applied |-> TRUE, f |-> probe.f, detail |-> probe.detail,
                 result  |-> extract_filename_from_event(probe.detail)]
    /\ UNCHANGED <<catalog, inv, log, returned, uuids, now, play, listed>>

SpecExtract == InitExtract /\ [][Extract]_vars

(* ------------------------- properties: helpers ------------------------- *)
\* the renditionUrls of an item; a failed item has none
UrlsOf(item) == Get(item, "videoUrls", <<>>)

\* the keys of a table
Ids(cat) == {cat[i].videoId : i \in 1..Len(cat)}

\* table.get_item(Key={'videoId': id}) for a key of the table
ItemOf(cat, id) == cat[CHOOSE i \in 1..Len(cat) : cat[i].videoId = id]

\* the key and the renditionUrls of every item of a table
UrlView(cat) == [i \in 1..Len(cat) |-> <<cat[i].videoId, UrlsOf(cat[i])>>]

\* the keys of the items of a table that carry the filename
RecordsFor(cat, filename) ==
    {id \in Ids(cat) : ItemOf(cat, id).originalFilename = filename}

\* an event handle_job_completion takes to the lookup
IsCompletion(e) ==
    /\ ~Falsy(e.jobId)
    /\ e.status = "COMPLETE"
    /\ ~NoFilename(extract_filename_from_event(e))

IsError(e) == ~Falsy(e.jobId) /\ e.status = "ERROR"

FilenameOf(e) == extract_filename_from_event(e).name

\* the free and the full COMPLETE event of one source file
Siblings(a, b) ==
    /\ IsCompletion(a) /\ IsCompletion(b)
    /\ FilenameOf(a) = FilenameOf(b)
    /\ get_job_type_from_detail(a) = "free"
    /\ get_job_type_from_detail(b) = "full"

\* lambda_handler run on the table cat with no other invocation in between
Reconcile(cat, e, fresh, pos, t) ==
    IF Falsy(e.jobId) \/ Falsy(e.status) THEN cat
    ELSE IF e.status = "COMPLETE"
         THEN handle_job_completion(cat, e.jobId, e, fresh, pos, t)
    ELSE IF e.status = "ERROR" THEN handle_job_error(cat, e.jobId, e, fresh, pos, t)
    ELSE cat

\* the tags the job category of an event owns
OwnedTags(e) ==
    LET job_type == get_job_type_from_detail(e)
    IN  IF job_type = "free" THEN {"free"}
        ELSE IF job_type = "full" THEN {"standard", "premium_720p", "premium_1080p"}
        ELSE {}

(* ------------------------------- claims -------------------------------- *)

\* C1 (as claimed): once the free and the full COMPLETE event of one source
\* file have each been reconciled once, whatever the interleaving of their
\* lookup and put steps, the catalog holds a record for that filename whose
\* renditionUrls has the four tags free, standard, premium_720p, premium_1080p.
C1_BothEventsGiveAllTags ==
    (/\ AllIdle
     /\ returned = 2
     /\ \/ Siblings(log[1].ev, log[2].ev)
        \/ Siblings(log[2].ev, log[1].ev))
    => \E id \in RecordsFor(catalog, FilenameOf(log[1].ev)) :
           DOMAIN UrlsOf(ItemOf(catalog, id)) = AllTags

\* C2 (as claimed): in every reachable state, interleaved invocations
\* included, at most one record whose status is not failed carries a given
\* originalFilename.
C2_OneNonFailedPerFilename ==
    \A a, b \in 1..Len(catalog) :
        (/\ catalog[a].status # "failed"
         /\ catalog[b].status # "failed"
         /\ catalog[a].originalFilename = catalog[b].originalFilename)
        => a = b

\* the renditionUrls of the record the lookup finds for a filename
UrlsFor(cat, filename) ==
    UrlsOf(find_existing_video_by_filename(cat, filename).item)

\* the table after reconciling a and then b, one at a time, a new key of the
\* first falling at position i and a new key of the second at position j
Both(cat, a, b, i, j) ==
    LET mid == Reconcile(cat, a, Uuid4, i, now)
    IN  Reconcile(mid, b, Uuid4 + 1, IF j <= Len(mid) THEN j ELSE Len(mid), now + 1)

\* C3: with invocations run one at a time and no record for the filename at
\* the start, reconciling the free and then the full COMPLETE event gives the
\* same renditionUrls mapping as reconciling them in the reverse order.  The
\* two events that really ran (the two entries of the log) are compared with
\* the reverse order run on the table they started from.
C3_Commutative ==
    \A n \in 2..Len(log) :
        LET a == log[n - 1]
            b == log[n]
            f == FilenameOf(a.ev)
        IN  (/\ Siblings(a.ev, b.ev) \/ Siblings(b.ev, a.ev)
             /\ RecordsFor(a.pre, f) = {})
            => /\ RecordsFor(b.post, f) # {}
               /\ \A i \in Positions(a.pre) : \A j \in Positions(a.pre) :
                     UrlsFor(b.post, f) = UrlsFor(Both(a.pre, b.ev, a.ev, i, j), f)

C3_Witness ==
    /\ returned = 3
    /\ Siblings(log[2].ev, log[1].ev)
    /\ RecordsFor(log[1].pre, FilenameOf(log[1].ev)) = {}
    /\ DOMAIN UrlsFor(catalog, FilenameOf(log[1].ev)) = AllTags

\* C4: whatever the table, when a COMPLETE event is reconciled twice in
\* succession (two invocations next to each other in the log, neither
\* overlapped by a write of another one), the renditionUrls of every record
\* after the second run are those after the first run, and the second run
\* writes the record the first one wrote.
C4_IdempotentUrls ==
    \A n \in 2..Len(log) :
        (/\ log[n].ev = log[n - 1].ev
         /\ log[n].ev.status = "COMPLETE"
         /\ log[n].atomic /\ log[n - 1].atomic)
        => /\ log[n].videoId = log[n - 1].videoId
           /\ UrlView(log[n].post) = UrlView(log[n - 1].post)

C4_Witness ==
    /\ returned = 3
    /\ log[2].ev = EvFree /\ log[1].ev = EvFree
    /\ log[2].atomic /\ log[1].atomic
    /\ DOMAIN UrlsOf(ItemOf(catalog, log[2].videoId)) = AllTags

\* C5 (as claimed): for every event, COMPLETE or ERROR, applying it twice in
\* succession leaves as many records as applying it once.
C5_IdempotentCount ==
    \A n \in 2..Len(log) :
        (log[n].ev = log[n - 1].ev /\ log[n].atomic /\ log[n - 1].atomic)
        => Len(log[n].post) = Len(log[n - 1].post)

\* C5 (amended): applying the same event twice in succession leaves as many
\* records as applying it once for every event but an ERROR event; every
\* application of an ERROR event adds one record.
C5_IdempotentCountButError ==
    \A n \in 2..Len(log) :
        (log[n].ev = log[n - 1].ev /\ log[n].atomic /\ log[n - 1].atomic)
        => Len(log[n].post) =
               Len(log[n - 1].post) + (IF IsError(log[n].ev) THEN 1 ELSE 0)

C5_Witness ==
    /\ returned = 3
    /\ log[1].ev = EvFull /\ log[2].ev = EvFull
    /\ log[1].atomic /\ log[2].atomic
    /\ Len(catalog) = 2

\* an entry of the log whose invocation merged into a record that existed
Merged(entry) ==
    /\ IsCompletion(entry.ev)
    /\ entry.wrote
    /\ entry.videoId \in Ids(entry.pre)

\* C6: with invocations run one at a time, a COMPLETE event merged into an
\* existing record leaves every tag its job category does not own with the
\* URL it had, and no reconcile removes a tag from any record.
C6_MonotonicMerge ==
    \A n \in 1..Len(log) :
        /\ Merged(log[n]) =>
              LET old == UrlsOf(ItemOf(log[n].pre, log[n].videoId))
                  new == UrlsOf(ItemOf(log[n].post, log[n].videoId))
              IN  \A t \in (DOMAIN old) \ OwnedTags(log[n].ev) :
                      t \in DOMAIN new /\ new[t] = old[t]
        /\ \A id \in Ids(log[n].pre) :
              /\ id \in Ids(log[n].post)
              /\ DOMAIN UrlsOf(ItemOf(log[n].pre, id))
                     \subseteq DOMAIN UrlsOf(ItemOf(log[n].post, id))

C6_Witness ==
    /\ Len(log) = 2
    /\ log[1].ev = EvFree /\ log[2].ev = EvFull
    /\ Merged(log[2])
    /\ UrlsOf(ItemOf(catalog, log[2].videoId)).free = FreeUrl(<<"myclip">>)
    /\ DOMAIN UrlsOf(ItemOf(catalog, log[2].videoId)) = AllTags

\* C7: with COMPLETE events reconciled one at a time, the jobIds of the
\* record an event wrote are the jobIds the record had before with the job id
\* of the event appended (the job id alone for a new record), so after the
\* free and the full event of a file its record carries both job ids in
\* arrival order.
C7_JobIdsAccumulate ==
    /\ \A n \in 1..Len(log) :
          (IsCompletion(log[n].ev) /\ log[n].wrote) =>
              ItemOf(log[n].post, log[n].videoId).mediaConvertJobId =
                  Append(IF log[n].videoId \in Ids(log[n].pre)
                         THEN ItemOf(log[n].pre, log[n].videoId).mediaConvertJobId
                         ELSE <<>>,
                         log[n].ev.jobId)
    /\ \A n \in 2..Len(log) :
          LET a == log[n - 1]
              b == log[n]
          IN  (/\ Siblings(a.ev, b.ev) \/ Siblings(b.ev, a.ev)
               /\ a.videoId \notin Ids(a.pre))
              => /\ b.videoId = a.videoId
                 /\ ItemOf(b.post, b.videoId).mediaConvertJobId =
                        <<a.ev.jobId, b.ev.jobId>>

C7_Witness ==
    /\ Len(log) = 2
    /\ Siblings(log[2].ev, log[1].ev)
    /\ log[1].videoId \notin Ids(log[1].pre)
    /\ ItemOf(catalog, log[2].videoId).mediaConvertJobId = <<"job-full", "job-free">>

\* C8 (as claimed): the record a COMPLETE event with an extractable filename
\* wrote has status completed, also when an ERROR event with the same
\* filename was reconciled before.
C8_WrittenRecordCompleted ==
    \A n \in 1..Len(log) :
        (IsCompletion(log[n].ev) /\ log[n].wrote) =>
            ItemOf(log[n].post, log[n].videoId).status = "completed"

\* C9: reconciling an ERROR event leaves every record that existed unchanged
\* and adds exactly one record, whose status is failed.
C9_ErrorAddsOneRecord ==
    \A n \in 1..Len(log) :
        IsError(log[n].ev) =>
            LET pre  == log[n].pre
                post == log[n].post
            IN  /\ log[n].wrote
                /\ log[n].videoId \notin Ids(pre)
                /\ Len(post) = Len(pre) + 1
                /\ SelectSeq(post, LAMBDA r : r.videoId # log[n].videoId) = pre
                /\ ItemOf(post, log[n].videoId).status = "failed"

C9_Witness ==
    /\ Len(log) = 2
    /\ log[1].ev = EvFull /\ log[2].ev = EvErrorFile
    /\ Len(catalog) = 2
    /\ \E i \in 1..2 : catalog[i].status = "completed"

\* the records with status completed keep it in the next state
CompletedStays ==
    \A i \in 1..Len(catalog) :
        catalog[i].status = "completed" =>
            \E j \in 1..Len(catalog') :
                /\ catalog'[j].videoId = catalog[i].videoId
                /\ catalog'[j].status = "completed"

\* C10: a record whose status is completed has status completed in every
\* later state, whatever COMPLETE and ERROR events are reconciled, and no
\* record ever has status processing.
C10_CompletedIsFinal ==
    /\ [](\A i \in 1..Len(catalog) : catalog[i].status # "processing")
    /\ [][CompletedStays]_vars

C10_Witness ==
    /\ returned = 3
    /\ log[1].ev = EvFull /\ log[2].ev = EvErrorFile
    /\ Merged(log[1])
    /\ ItemOf(catalog, log[1].videoId).status = "completed"

(* ------------------ claims: rejections and write count ------------------ *)
\* jobId or status is None or ''
MissingField(e) == e.jobId \in {Absent, ""} \/ e.status \in {Absent, ""}

\* C11: an event whose jobId or status is absent or empty is answered with
\* status code 400 and leaves the catalog as it was.
C11_MissingFieldsRejected ==
    \A i \in 1..Len(log) :
        MissingField(log[i].ev) =>
            /\ log[i].statusCode = 400
            /\ log[i].post = log[i].pre

\* an event without jobId and one without status were both turned away from
\* a catalog that holds a record
C11_Witness ==
    /\ Len(log) = 2
    /\ log[1].ev.jobId \in {Absent, ""} /\ log[1].statusCode = 400
    /\ log[2].ev.status \in {Absent, ""} /\ log[2].statusCode = 400
    /\ log[2].pre # <<>>
    /\ catalog = log[2].pre

\* none of the output paths of the event carries one of the five patterns
NoPatternPath(e) ==
    \A i \in 1..Len(OutputPaths(e)) :
        \A tok \in {SufFree, SufStandard, SufPremium720, SufPremium1080, ThumbMark} :
            ~Contains(Basename(OutputPaths(e)[i]), tok)

\* C12: a COMPLETE event none of whose output paths matches a rendition or
\* thumbnail pattern creates no record and changes no record.
C12_NoFilenameNoChange ==
    \A i \in 1..Len(log) :
        LET e == log[i].ev
        IN  (~MissingField(e) /\ e.status = "COMPLETE" /\ NoPatternPath(e)) =>
                log[i].post = log[i].pre

\* a COMPLETE event with an output path that matches nothing was handled
\* while the catalog held a record
C12_Witness ==
    \E i \in 1..Len(log) :
        /\ log[i].ev = EvNoMatch
        /\ log[i].pre # <<>>
        /\ log[i].post = log[i].pre

\* the number of items of post that pre does not hold as they are
Written(pre, post) ==
    Cardinality({i \in 1..Len(post) : \A j \in 1..Len(pre) : pre[j] # post[i]})

\* the number of items of pre whose key post no longer holds
Removed(pre, post) ==
    Cardinality({j \in 1..Len(pre) : \A i \in 1..Len(post) :
                     post[i].videoId # pre[j].videoId})

\* the invocation got as far as the lookup (COMPLETE) or the put (ERROR)
ReachesPut(e) ==
    /\ ~MissingField(e)
    /\ \/ e.status = "ERROR"
       \/ e.status = "COMPLETE" /\ ~NoFilename(extract_filename_from_event(e))

\* C13: an invocation that reaches the lookup-or-create step puts exactly
\* one item (one item of the table is new or replaced, none is lost), and an
\* invocation turned away earlier puts none.
C13_OnePutPerReconcile ==
    \A i \in 1..Len(log) :
        LET pre == log[i].pre
            post == log[i].post
        IN  IF ReachesPut(log[i].ev)
            THEN /\ Written(pre, post) = 1
                 /\ Removed(pre, post) = 0
                 /\ Len(post) \in {Len(pre), Len(pre) + 1}
            ELSE post = pre

\* a replacing put and an early rejection, one after the other
C13_Witness ==
    /\ Len(log) = 2
    /\ ReachesPut(log[1].ev)
    /\ Len(log[1].post) = Len(log[1].pre)
    /\ Len(log[1].pre) > 0
    /\ ~ReachesPut(log[2].ev)

(* --------------------------- claims: playback --------------------------- *)
\* the request served got as far as get_video_metadata and found an item
PlayedOn(status) ==
    /\ play.served
    /\ play.out.metadata.called
    /\ play.out.metadata.result.found
    /\ play.out.metadata.result.item.status = status

PlayedItem == play.out.metadata.result.item

PlayedTier == play.out.subscription.result.value

PlayedResponse == play.out.response

\* C14 (as claimed): a request for a record whose status is not completed is
\* answered exactly as a request for an unknown videoId is, with the
\* not-found result.
C14_NotCompletedIsNotFound ==
    (\E status \in {"processing", "failed"} : PlayedOn(status)) =>
        /\ PlayedResponse.statusCode = 404
        /\ PlayedResponse.error = <<"Video not found">>

\* C14 (amended): a request for a record whose status is not completed is
\* answered with status code 202 and 'Video is still processing', a result
\* of its own that differs from the 404 'Video not found' of an unknown
\* videoId; neither carries a playback descriptor.
C14_NotCompletedIsHeldBack ==
    /\ (\E status \in {"processing", "failed"} : PlayedOn(status)) =>
           /\ PlayedResponse.statusCode = 202
           /\ PlayedResponse.error = <<"Video is still processing">>
           /\ ~PlayedResponse.body.present
    /\ (/\ play.served
        /\ play.out.metadata.called
        /\ ~play.out.metadata.result.found) =>
           /\ PlayedResponse.statusCode = 404
           /\ PlayedResponse.error = <<"Video not found">>
           /\ ~PlayedResponse.body.present

\* a request for a failed record that holds rendition URLs
C14_Witness ==
    /\ PlayedOn("failed")
    /\ UrlsOf(PlayedItem) # <<>>
    /\ PlayedResponse.statusCode = 202

\* the rendition table of the playback contract
\* (cap -1: no limit on the duration)
RenditionRow(tier, quality) ==
    IF tier = "free" THEN [tag |-> "free", quality |-> "480p", cap |-> 10]
    ELSE IF tier = "standard" THEN [tag |-> "standard", quality |-> "480p", cap |-> -1]
    ELSE IF quality = "1080p"
    THEN [tag |-> "premium_1080p", quality |-> "1080p", cap |-> -1]
    ELSE IF quality = "480p" THEN [tag |-> "standard", quality |-> "480p", cap |-> -1]
    ELSE [tag |-> "premium_720p", quality |-> "720p", cap |-> -1]

PlayedRow == RenditionRow(PlayedTier, play.req.event.quality)

\* the item holds a non-empty URL under the tag
HasUrl(item, tag) ==
    /\ tag \in DOMAIN UrlsOf(item)
    /\ UrlsOf(item)[tag] # <<>>

\* C15: for a completed record a descriptor is returned only if the tag the
\* tier and the requested quality call for is present with a non-empty URL;
\* when it is absent the request ends in an error result with no descriptor.
C15_NoDescriptorWithoutTag ==
    (PlayedOn("completed") /\ ~HasUrl(PlayedItem, PlayedRow.tag)) =>
        /\ ~PlayedResponse.body.present
        /\ PlayedResponse.statusCode # 200
        /\ PlayedResponse.error # <<>>

\* a standard-tier request for a completed record that holds only the free tag
C15_Witness ==
    /\ PlayedOn("completed")
    /\ PlayedTier = "standard"
    /\ DOMAIN UrlsOf(PlayedItem) = {"free"}
    /\ PlayedResponse.statusCode = 500

\* C16: for every tier and every requested quality among absent, 480p, 720p
\* and 1080p the URL chosen is the one under the tag of the table, and the
\* quality and the duration cap are those of the table.
C16_RenditionTable ==
    (PlayedOn("completed") /\ play.req.event.quality \in {Absent, "480p", "720p", "1080p"}) =>
        LET row == PlayedRow
            choice == RenditionChoice(PlayedTier, play.req.event, UrlsOf(PlayedItem))
        IN  /\ choice.quality = row.quality
            /\ choice.max_duration = row.cap
            /\ choice.video_url =
                   IF HasUrl(PlayedItem, row.tag) THEN UrlsOf(PlayedItem)[row.tag] ELSE <<>>
            /\ PlayedResponse.body.present =>
                   /\ PlayedResponse.body.quality = row.quality
                   /\ PlayedResponse.body.maxDuration = row.cap

\* a premium request without a quality parameter, served at 720p
C16_Witness ==
    /\ PlayedOn("completed")
    /\ PlayedTier = "premium"
    /\ play.req.event.quality = Absent
    /\ PlayedResponse.body.present
    /\ PlayedResponse.body.quality = "720p"

\* C17: the videoUrl of a descriptor is the URL stored under the tag of the
\* table followed by the expiry parameter and nothing else.
C17_StoredUrlPlusExpiry ==
    (PlayedOn("completed") /\ PlayedResponse.body.present) =>
        LET stored == UrlsOf(PlayedItem)[PlayedRow.tag]
            url == PlayedResponse.body.videoUrl
        IN  /\ HasUrl(PlayedItem, PlayedRow.tag)
            /\ Len(url) = Len(stored) + 2
            /\ SubSeq(url, 1, Len(stored)) = stored
            /\ url[Len(stored) + 1] = "?expires="

\* a premium 480p request served the URL stored under standard, from a
\* record that holds all four tags
C17_Witness ==
    /\ PlayedOn("completed")
    /\ PlayedTier = "premium"
    /\ play.req.event.quality = "480p"
    /\ DOMAIN UrlsOf(PlayedItem) = AllTags
    /\ PlayedResponse.body.present
    /\ SubSeq(PlayedResponse.body.videoUrl, 1, Len(UrlsOf(PlayedItem)["standard"]))
           = UrlsOf(PlayedItem)["standard"]

\* C18: with the clock in whole seconds, the expiry in the URL is the time
\* of the request plus 900 for the free tier and plus 7200 for the standard
\* and premium tiers.
C18_ExpiryOffset ==
    (play.served /\ PlayedResponse.body.present) =>
        LET url == PlayedResponse.body.videoUrl
        IN  url[Len(url)] =
                ToString(play.now + (IF PlayedTier = "free" THEN 900 ELSE 7200))

\* a free-tier descriptor served after the clock has moved
C18_Witness ==
    /\ play.served
    /\ play.now > 1
    /\ PlayedResponse.body.present
    /\ PlayedTier = "free"

\* the identity lookup of the request served came back with the user
LookupAnswered ==
    /\ play.served
    /\ play.out.subscription.called
    /\ play.req.event.auth.username # Absent
    /\ play.req.idp.pool_configured
    /\ play.req.idp.reachable
    /\ play.req.idp.user_exists

\* C19: the stored attribute is mapped trial and guest to free, saving to
\* standard, free, standard and premium to themselves, every other value
\* and no value at all to free.
C19_ResolveMapping ==
    LookupAnswered =>
        LET stored == play.req.idp.subscription_type
            result == play.out.subscription.result
        IN  /\ ~result.raised
            /\ result.value \in {"free", "standard", "premium"}
            /\ result.value =
                   CASE stored \in {"trial", "guest", "free"} -> "free"
                     [] stored \in {"saving", "standard"} -> "standard"
                     [] stored = "premium" -> "premium"
                     [] OTHER -> "free"

\* a user whose stored attribute is a value the code does not know
C19_Witness ==
    /\ LookupAnswered
    /\ play.req.idp.subscription_type = "gold"
    /\ PlayedTier = "free"

\* the identity lookup of the request served failed
LookupFailed ==
    /\ play.served
    /\ play.out.subscription.called
    /\ \/ play.req.event.auth.username = Absent
       \/ ~play.req.idp.pool_configured
       \/ ~play.req.idp.reachable
       \/ ~play.req.idp.user_exists

\* C20 (as claimed): whatever makes the identity lookup fail, the tier
\* resolved is free and the request does not end in an error for it.
C20_LookupFailureGivesFree ==
    LookupFailed =>
        /\ ~play.out.subscription.result.raised
        /\ play.out.subscription.result.value = "free"

\* C21 (as claimed): when the table cannot be read while a playback request
\* is served, the response differs from the one given for a videoId that is
\* not in the table.
C21_LookupFailureIsNotNotFound ==
    (/\ play.served
     /\ play.out.metadata.called
     /\ ~play.req.store_up) =>
        PlayedResponse # create_error_response(404, <<"Video not found">>)

(* ---------------------------- claims: reads ----------------------------- *)
\* C22: a step that serves a playback request or a list request, whatever
\* its outcome, leaves every record of the catalog as it was.
C22_ReadsLeaveCatalog ==
    [][(play' # play \/ listed' # listed) => catalog' = catalog]_vars

\* a playback request answered with a descriptor from a table of two records
C22_Witness ==
    /\ play.served
    /\ PlayedResponse.statusCode = 200
    /\ Len(catalog) = 2

\* the page, the limit and the answer of the list request served
ListedPage == IntParam(listed.params.page, 1)

ListedLimit == IntParam(listed.params.limit, 12)

ListedPagination == listed.response.body.pagination

\* the list request served read page and limit as numbers >= 1
ListedInRange ==
    /\ listed.served
    /\ listed.params.numeric
    /\ ListedPage >= 1
    /\ ListedLimit >= 1

\* the records the status filter of the list request lets through
Matching ==
    {i \in 1..Len(catalog) :
        \/ ~listed.params.status.given
        \/ listed.params.status.value = ""
        \/ catalog[i].status = listed.params.status.value}

\* C23: for page >= 1 and limit >= 1 the videos are the items at positions
\* (page-1)*limit .. page*limit-1 of the retrieved ordering, totalItems is
\* the number of matching records, totalPages is ceil(totalItems/limit) (1
\* for 0 items), hasNext is page < totalPages and hasPrevious is page > 1.
C23_PageWindow ==
    ListedInRange =>
        LET all   == Retrieved(catalog, listed.params.status)
            n     == Cardinality(Matching)
            first == (ListedPage - 1) * ListedLimit + 1
            last  == IF ListedPage * ListedLimit <= n THEN ListedPage * ListedLimit ELSE n
            ceil  == CHOOSE c \in 0..n : c * ListedLimit >= n /\ (c - 1) * ListedLimit < n
        IN  /\ listed.response.statusCode = 200
            /\ Len(all) = n
            /\ listed.response.body.videos =
                   [k \in 1..(IF last >= first THEN last - first + 1 ELSE 0) |->
                        ListedVideo(all[first + k - 1])]
            /\ ListedPagination.totalItems = n
            /\ ListedPagination.totalPages = (IF n = 0 THEN 1 ELSE ceil)
            /\ ListedPagination.hasNext = (ListedPage < ListedPagination.totalPages)
            /\ ListedPagination.hasPrevious = (ListedPage > 1)

\* page 2 of three records, one per page
C23_Witness ==
    /\ ListedInRange
    /\ ListedPage = 2 /\ ListedLimit = 1
    /\ Len(catalog) = 3
    /\ Cardinality(Matching) = 3
    /\ Len(listed.response.body.videos) = 1
    /\ ListedPagination.hasNext /\ ListedPagination.hasPrevious

\* C24: a page past the last record gives no videos and hasNext false, with
\* the totalItems and totalPages that page 1 reports on the same catalog.
C24_PastTheEnd ==
    (ListedInRange /\ (ListedPage - 1) * ListedLimit >= Len(catalog)) =>
        LET page1 == lister_lambda_handler([listed.params EXCEPT !.page = Param(1)],
                                           catalog).body.pagination
        IN  /\ listed.response.statusCode = 200
            /\ listed.response.body.videos = <<>>
            /\ ~ListedPagination.hasNext
            /\ ListedPagination.totalItems = page1.totalItems
            /\ ListedPagination.totalPages = page1.totalPages

\* page 3 of two records, one per page
C24_Witness ==
    /\ ListedInRange
    /\ ListedPage = 3 /\ ListedLimit = 1
    /\ Len(catalog) = 2
    /\ listed.response.body.videos = <<>>
    /\ ListedPagination.totalItems = 2

(* ------------------------ claims: record contents ----------------------- *)
\* the renditionUrls of the record of an entry before and after its put
UrlsBefore(entry) ==
    IF entry.videoId \in Ids(entry.pre) THEN UrlsOf(ItemOf(entry.pre, entry.videoId))
    ELSE <<>>

UrlsAfter(entry) == UrlsOf(ItemOf(entry.post, entry.videoId))

\* the URL a job writes under a tag
UrlFor(tag, filename) ==
    IF tag = "free" THEN FreeUrl(filename)
    ELSE IF tag = "standard" THEN StandardUrl(filename)
    ELSE IF tag = "premium_720p" THEN Premium720Url(filename)
    ELSE Premium1080Url(filename)

\* C25: the tags a COMPLETE event adds or overwrites are exactly free for a
\* free job and exactly standard, premium_720p, premium_1080p for a full
\* job; every other tag of the record stays, and a record a free event
\* creates holds the free tag alone.
C25_TagsByCategory ==
    \A n \in 1..Len(log) :
        LET e == log[n].ev
            job_type == get_job_type_from_detail(e)
            owned == IF job_type = "free" THEN {"free"}
                     ELSE {"standard", "premium_720p", "premium_1080p"}
        IN  (IsCompletion(e) /\ job_type \in {"free", "full"}) =>
                LET old == UrlsBefore(log[n])
                    new == UrlsAfter(log[n])
                IN  /\ DOMAIN new = (DOMAIN old) \cup owned
                    /\ \A t \in owned : new[t] = UrlFor(t, FilenameOf(e))
                    /\ \A t \in (DOMAIN old) \ owned : new[t] = old[t]

\* a full event created the record and the free event then added its tag
C25_Witness ==
    /\ Len(log) = 2
    /\ log[1].ev = EvFull /\ log[1].videoId \notin Ids(log[1].pre)
    /\ DOMAIN UrlsAfter(log[1]) = {"standard", "premium_720p", "premium_1080p"}
    /\ log[2].ev = EvFree /\ log[2].videoId = log[1].videoId
    /\ DOMAIN UrlsAfter(log[2]) = AllTags

\* C26 (as claimed): a free COMPLETE event leaves thumbnailUrl as it was,
\* unset where it creates the record.
C26_FreeLeavesThumbnail ==
    \A n \in 1..Len(log) :
        LET e == log[n].ev
        IN  (IsCompletion(e) /\ get_job_type_from_detail(e) = "free") =>
                LET new == ItemOf(log[n].post, log[n].videoId)
                IN  IF log[n].videoId \in Ids(log[n].pre)
                    THEN LET old == ItemOf(log[n].pre, log[n].videoId)
                         IN  /\ ("thumbnailUrl" \in DOMAIN new) = ("thumbnailUrl" \in DOMAIN old)
                             /\ "thumbnailUrl" \in DOMAIN old =>
                                    new.thumbnailUrl = old.thumbnailUrl
                    ELSE "thumbnailUrl" \notin DOMAIN new

\* C27: for every filename f holding none of the patterns, every suffix and
\* every directory, extraction from an event whose first output path is
\* <directory>/f<suffix> gives f.
C27_ExtractionRoundTrip ==
    probe.applied => probe.result = [ok |-> TRUE, name |-> probe.f]

\* a two-token filename taken back from a thumbnail path outside /thumbnails/
C27_Witness ==
    /\ probe.applied
    /\ Len(probe.f) = 2
    /\ Contains(Basename(OutputPaths(probe.detail)[1]), ThumbMark)
    /\ ~HasSegment(OutputPaths(probe.detail)[1], "thumbnails")
    /\ Len(OutputPaths(probe.detail)) = 2
    /\ probe.result.name = probe.f

\* C28: an ERROR event with no extractable filename writes a record named
\* failed_job_<jobId> with status failed, the errorCode and errorMessage of
\* the event (UNKNOWN_ERROR and 'Unknown error' when absent) and no
\* rendition URLs.
C28_ErrorRecordWithoutFilename ==
    \A n \in 1..Len(log) :
        LET e == log[n].ev
        IN  (~MissingField(e) /\ e.status = "ERROR" /\ NoPatternPath(e)) =>
                LET item == ItemOf(log[n].post, log[n].videoId)
                IN  /\ item.originalFilename = <<"failed_job_", e.jobId>>
                    /\ item.status = "failed"
                    /\ item.errorCode =
                           (IF e.errorCode = Absent THEN "UNKNOWN_ERROR" ELSE e.errorCode)
                    /\ item.errorMessage =
                           (IF e.errorMessage = Absent THEN "Unknown error"
                            ELSE e.errorMessage)
                    /\ "videoUrls" \notin DOMAIN item

\* an ERROR event with error fields and one without, both without outputs
C28_Witness ==
    /\ Len(log) = 2
    /\ log[1].ev = EvError /\ log[2].ev = EvErrorBare
    /\ ItemOf(catalog, log[1].videoId).errorCode = "1040"
    /\ ItemOf(catalog, log[2].videoId).errorCode = "UNKNOWN_ERROR"
    /\ ItemOf(catalog, log[2].videoId).originalFilename = <<"failed_job_", "job-err-bare">>

\* the values of durationInMs an event carries at the output level (0
\* counts as no value)
OutputDurations(e) ==
    {e.outputDetails[i].durationInMs : i \in 1..Len(e.outputDetails)} \ {-1, 0}

ResponseWithQuality(q) ==
    streamer_lambda_handler([play.req.event EXCEPT !.quality = q], play.req.idp,
                            catalog, play.req.store_up, play.now).response

\* C30: on a completed record a free or standard request gets the same
\* answer whatever its quality parameter is, and the URL in a descriptor is
\* the one stored under free for the free tier and under standard for the
\* standard tier.
C30_QualityIgnoredBelowPremium ==
    (PlayedOn("completed") /\ PlayedTier \in {"free", "standard"}) =>
        /\ \A q \in Qualities : ResponseWithQuality(q) = PlayedResponse
        /\ PlayedResponse.body.present =>
               LET stored == UrlsOf(PlayedItem)[PlayedTier]
               IN  /\ PlayedResponse.body.quality = "480p"
                   /\ SubSeq(PlayedResponse.body.videoUrl, 1, Len(stored)) = stored

\* a standard request asking for 1080p on a record with all four tags
C30_Witness ==
    /\ PlayedOn("completed")
    /\ PlayedTier = "standard"
    /\ play.req.event.quality = "1080p"
    /\ DOMAIN UrlsOf(PlayedItem) = AllTags
    /\ PlayedResponse.body.present
    /\ PlayedResponse.body.quality = "480p"

(* ----------------------- claims: completed records ---------------------- *)
\* C31 (as claimed): every request that reaches a completed record, whatever
\* its tier and its quality, is answered with a descriptor: no record is
\* completed while a tag some tier needs is missing.
C31_CompletedPlaysForEveryTier ==
    PlayedOn("completed") =>
        /\ PlayedResponse.statusCode = 200
        /\ PlayedResponse.body.present

\* C31 (amended): a record is completed as soon as one COMPLETE event has
\* created it, with the tags of that job alone.  A request on a completed
\* record is answered with a descriptor exactly when the tag its tier and
\* quality call for is there with a non-empty URL, and with the 500 'Video
\* not available for subscription type' otherwise; on a record that holds
\* the four tags every tier and every quality is answered with a descriptor.
C31_CompletedPlaysWhereTagIs ==
    PlayedOn("completed") =>
        /\ (PlayedResponse.statusCode = 200) = HasUrl(PlayedItem, PlayedRow.tag)
        /\ PlayedResponse.body.present = HasUrl(PlayedItem, PlayedRow.tag)
        /\ ~HasUrl(PlayedItem, PlayedRow.tag) =>
               /\ PlayedResponse.statusCode = 500
               /\ PlayedResponse.error =
                      <<"Internal server error: ", "Video not available for subscription type">>
        /\ DOMAIN UrlsOf(PlayedItem) = AllTags => PlayedResponse.statusCode = 200

\* a premium 1080p request on a completed record that a free event created
\* and no full event has reached
C31_Witness ==
    /\ PlayedOn("completed")
    /\ DOMAIN UrlsOf(PlayedItem) = {"free"}
    /\ PlayedItem.mediaConvertJobId = <<"job-free">>
    /\ PlayedTier = "premium"
    /\ play.req.event.quality = "1080p"
    /\ PlayedResponse.statusCode = 500

\* the duration of the record the lookup finds for a filename
DurationFor(cat, filename) ==
    Get(find_existing_video_by_filename(cat, filename).item, "duration", NoSeconds)

\* C32 (as claimed): once the free and the full COMPLETE event of a file
\* have been reconciled one after the other, the duration of its record is
\* the one the reverse order gives from the same table, also when the two
\* events carry different durations.
C32_DurationOrderIndependent ==
    \A n \in 2..Len(log) :
        LET a == log[n - 1]
            b == log[n]
            f == FilenameOf(a.ev)
        IN  (Siblings(a.ev, b.ev) \/ Siblings(b.ev, a.ev)) =>
                \A i \in Positions(a.pre) : \A j \in Positions(a.pre) :
                    DurationFor(b.post, f) =
                        DurationFor(Both(a.pre, b.ev, a.ev, i, j), f)

(* -------------------------- claims: store errors ------------------------ *)
\* C33 (as claimed): when the scan of the filename lookup raises while the
\* table holds a record for the filename, the put that follows creates no
\* second record for that filename.
C33_LookupErrorIsNotNoRecord ==
    [][\A p \in Procs :
          (/\ inv[p].pc = "put"
           /\ ~inv[p].scan_ok
           /\ RecordsFor(catalog, inv[p].filename) # {}
           /\ inv'[p].pc = "idle")
          => RecordsFor(catalog', inv[p].filename) =
                 RecordsFor(catalog, inv[p].filename)]_vars

(* --------------------------- claims: guard order ------------------------ *)
\* C34: a request without an Authorization header, or with one that does not
\* start with 'Bearer ', is answered 401 with neither the identity store nor
\* the table looked at; and the answer of every request is that of the first
\* guard it fails in the order authorization (401), videoId present (400),
\* tier resolution (500), record exists (404), record completed (202).
C34_GuardOrder ==
    play.served =>
        LET e   == play.req.event
            idp == play.req.idp
            out == play.out
            code == out.response.statusCode
            in_table == \E i \in 1..Len(catalog) : catalog[i].videoId = e.videoId
        IN  /\ e.auth.scheme # "Bearer" =>
                   /\ code = 401
                   /\ ~out.subscription.called
                   /\ ~out.metadata.called
            /\ IF e.auth.scheme # "Bearer" \/ ~e.auth.decodes
               THEN code = 401 /\ ~out.subscription.called /\ ~out.metadata.called
               ELSE IF e.videoId = 0
               THEN code = 400 /\ ~out.subscription.called /\ ~out.metadata.called
               ELSE IF e.auth.username = Absent \/ ~idp.pool_configured \/ ~idp.reachable
               THEN code = 500 /\ out.subscription.called /\ ~out.metadata.called
               ELSE IF ~play.req.store_up \/ ~in_table
               THEN code = 404 /\ out.subscription.called /\ out.metadata.called
               ELSE IF out.metadata.result.item.status # "completed"
               THEN code = 202 /\ out.subscription.called /\ out.metadata.called
               ELSE code \in {200, 500} /\ out.metadata.called

\* a request with a Basic header, no videoId and an identity store that
\* would fail, turned away with 401 before either is looked at
C34_Witness ==
    /\ play.served
    /\ play.req.event.auth.scheme = "Basic"
    /\ play.req.event.videoId = 0
    /\ ~play.req.idp.pool_configured
    /\ ~play.req.store_up
    /\ PlayedResponse.statusCode = 401
    /\ ~play.out.subscription.called

(* ------------------------ claims: other records ------------------------- *)
\* the filename an invocation works under: the extracted one, or for an
\* ERROR event without one the name made from the job id
WorkingFilename(e) ==
    IF IsError(e) /\ NoPatternPath(e) THEN <<"failed_job_", e.jobId>>
    ELSE FilenameOf(e)

\* C35: reconciling an event whose extracted or synthesized filename is f
\* leaves every record whose originalFilename is not f in the table with
\* the attributes it had.
C35_OtherFilenamesUntouched ==
    \A n \in 1..Len(log) :
        LET f == WorkingFilename(log[n].ev)
            pre == log[n].pre
            post == log[n].post
        IN  \A i \in 1..Len(pre) :
                pre[i].originalFilename # f =>
                    /\ \E j \in 1..Len(post) : post[j] = pre[i]
                    /\ Cardinality({j \in 1..Len(post) :
                                       post[j].videoId = pre[i].videoId}) = 1

\* the full event of myclip merged into its record while the table also
\* held the record of another file
C35_Witness ==
    /\ returned = 3
    /\ log[1].ev = EvOtherFree
    /\ log[2].ev = EvFull
    /\ Merged(log[2])
    /\ Len(catalog) = 2
    /\ \E i \in 1..2 : \E j \in 1..2 :
           /\ catalog[i].originalFilename = <<"other">>
           /\ log[2].pre[j] = catalog[i]

\* C36: with invocations run one at a time, every record stays in the table
\* under its videoId with the originalFilename it was created with, and a
\* COMPLETE event for a filename that has a record is written under the
\* videoId of a record of that filename, no new videoId being added.
C36_StableIdentity ==
    \A n \in 1..Len(log) :
        LET e == log[n].ev
            pre == log[n].pre
            post == log[n].post
        IN  /\ \A id \in Ids(pre) :
                   /\ id \in Ids(post)
                   /\ ItemOf(post, id).originalFilename = ItemOf(pre, id).originalFilename
            /\ (IsCompletion(e) /\ RecordsFor(pre, FilenameOf(e)) # {}) =>
                   /\ log[n].videoId \in RecordsFor(pre, FilenameOf(e))
                   /\ Ids(post) = Ids(pre)
                   /\ RecordsFor(post, FilenameOf(e)) = RecordsFor(pre, FilenameOf(e))

\* the full event and then the free event a second time, both written under
\* the videoId the first free event drew
C36_Witness ==
    /\ returned = 3
    /\ log[1].ev = EvFull /\ log[2].ev = EvFree
    /\ Merged(log[1]) /\ Merged(log[2])
    /\ log[1].videoId = log[2].videoId
    /\ Ids(catalog) = {log[2].videoId}
    /\ uuids = 1

(* ------------------------ claims: premium default ----------------------- *)
\* C37: a premium request on a completed record whose quality parameter is
\* anything but 1080p or 480p (720p, none, or a value the code does not
\* know) is served the URL stored under premium_720p with quality 720p and
\* no duration cap; where the record holds no such URL nothing is served.
C37_PremiumDefaultsTo720 ==
    (/\ PlayedOn("completed")
     /\ PlayedTier = "premium"
     /\ play.req.event.quality \notin {"1080p", "480p"}) =>
        IF HasUrl(PlayedItem, "premium_720p")
        THEN LET stored == UrlsOf(PlayedItem)["premium_720p"]
             IN  /\ PlayedResponse.statusCode = 200
                 /\ PlayedResponse.body.present
                 /\ PlayedResponse.body.quality = "720p"
                 /\ PlayedResponse.body.maxDuration = -1
                 /\ SubSeq(PlayedResponse.body.videoUrl, 1, Len(stored)) = stored
        ELSE ~PlayedResponse.body.present

\* a premium request asking for 4k on a record with all four tags
C37_Witness ==
    /\ PlayedOn("completed")
    /\ PlayedTier = "premium"
    /\ play.req.event.quality = "4k"
    /\ DOMAIN UrlsOf(PlayedItem) = AllTags
    /\ PlayedResponse.body.present
    /\ PlayedResponse.body.quality = "720p"
    /\ PlayedResponse.body.videoUrl[5] = SufPremium720

(* ------------------------ claims: other statuses ------------------------ *)
\* C38: an event with a jobId and a status that is neither COMPLETE nor
\* ERROR (PROGRESSING, CANCELED) is answered with status code 200 and
\* leaves the catalog as it was.
C38_UnhandledStatusIgnored ==
    \A n \in 1..Len(log) :
        LET e == log[n].ev
        IN  (~MissingField(e) /\ e.status \notin {"COMPLETE", "ERROR"}) =>
                /\ log[n].statusCode = 200
                /\ ~log[n].wrote
                /\ log[n].post = log[n].pre

\* a PROGRESSING event and a CANCELED event that names an output of myclip,
\* both answered 200 on a table that holds a record
C38_Witness ==
    /\ Len(log) = 2
    /\ log[1].ev = EvProgressing /\ log[1].statusCode = 200
    /\ log[2].ev = EvCanceled /\ log[2].statusCode = 200
    /\ log[1].pre # <<>>
    /\ catalog = log[1].pre

====
